---- MODULE Spec2Model ----
(***************************************************************************)
(* CSV splitter (src/main.py): split_csv cuts a DataFrame into chunks of   *)
(* chunk_size rows, convert_df_to_csv serialises a chunk, and main reads   *)
(* an uploaded CSV, splits it with chunk_size=10, writes every chunk into  *)
(* an in-memory zip archive and hands the archive to a download button.    *)
(*                                                                         *)
(* Text is a sequence of Unicode code points, bytes are a sequence of      *)
(* numbers 0..255.  A DataFrame is a record [columns, index, rows]: the    *)
(* column names, the row labels and the rows (each a sequence of cells).   *)
(* A cell is text, or NaN for a missing value.  The cells of the inputs    *)
(* are non-numeric text without carriage returns, so pandas' dtype         *)
(* inference keeps them as text and the line terminator is LF throughout.  *)
(***************************************************************************)
EXTENDS Integers, Sequences, FiniteSets, TLC

\* ---------------------------------------------------------------- bounds
\* Largest number of data rows of an uploaded file.
MaxRows == 22
\* Largest number of rows of a DataFrame passed to split_csv directly.
MaxCallRows == 25
\* chunk_size of a direct call of split_csv is in
\* -MaxNegativeChunkSize .. MaxChunkSize.
MaxNegativeChunkSize == 3
MaxChunkSize == 10

\* ---------------------------------------------------------- code points
LF == 10
QUOTE == 34
COMMA == 44
DOT == 46
SLASH == 47
ZERO == 48

NaN == <<-1>>

Max(a, b) == IF a >= b THEN a ELSE b
Min(a, b) == IF a <= b THEN a ELSE b

\* Python's // : floor division, for either sign of the divisor (b # 0).
PyFloorDivTrunc(a, b) ==
    IF (a >= 0) = (b > 0) THEN (IF b > 0 THEN a \div b ELSE (-a) \div (-b))
    ELSE 0 - (IF b > 0 THEN (-a) \div b ELSE a \div (-b))
PyFloorDiv(a, b) == IF b > 0 THEN a \div b ELSE (-a) \div (-b)

\* str(n) of a non-negative integer: its decimal digits.
RECURSIVE str(_)
str(n) == IF n < 10 THEN <<ZERO + n>> ELSE str(n \div 10) \o <<ZERO + (n % 10)>>

\* s.encode('utf-8'): [exc, value].  Surrogates cannot be encoded.
Utf8OfCodePoint(c) ==
    IF c < 128 THEN <<c>>
    ELSE IF c < 2048 THEN <<192 + (c \div 64), 128 + (c % 64)>>
    ELSE IF c < 65536 THEN <<224 + (c \div 4096), 128 + ((c \div 64) % 64), 128 + (c % 64)>>
    ELSE <<240 + (c \div 262144), 128 + ((c \div 4096) % 64),
           128 + ((c \div 64) % 64), 128 + (c % 64)>>
IsSurrogate(c) == c >= 55296 /\ c <= 57343
\* The bytes of s[lo..hi], by halves.
RECURSIVE EncodeRange(_, _, _)
EncodeRange(s, lo, hi) ==
    IF lo > hi THEN <<>>
    ELSE IF lo = hi THEN Utf8OfCodePoint(s[lo])
    ELSE LET mid == (lo + hi) \div 2
         IN EncodeRange(s, lo, mid) \o EncodeRange(s, mid + 1, hi)
encode_utf8(s) ==
    IF \E i \in 1..Len(s) : IsSurrogate(s[i])
    THEN [exc |-> "UnicodeEncodeError", value |-> <<>>]
    ELSE [exc |-> "None", value |-> EncodeRange(s, 1, Len(s))]

\* bytes.decode('utf-8'), strict: [exc, value].  The decoder reads byte by
\* byte; need is the number of continuation bytes still expected, cp the
\* code point so far, least the smallest code point the sequence may encode.
DecodeStart == [need |-> 0, cp |-> 0, least |-> 0, acc |-> <<>>, bad |-> FALSE]
DecodeStep(s, b) ==
    IF s.bad THEN s
    ELSE IF s.need = 0
    THEN IF b < 128 THEN [s EXCEPT !.acc = Append(s.acc, b)]
         ELSE IF b >= 194 /\ b <= 223
              THEN [s EXCEPT !.need = 1, !.cp = b - 192, !.least = 128]
         ELSE IF b >= 224 /\ b <= 239
              THEN [s EXCEPT !.need = 2, !.cp = b - 224, !.least = 2048]
         ELSE IF b >= 240 /\ b <= 244
              THEN [s EXCEPT !.need = 3, !.cp = b - 240, !.least = 65536]
         ELSE [s EXCEPT !.bad = TRUE]
    ELSE IF b < 128 \/ b > 191 THEN [s EXCEPT !.bad = TRUE]
    ELSE LET c == s.cp * 64 + (b - 128) IN
         IF s.need > 1 THEN [s EXCEPT !.need = s.need - 1, !.cp = c]
         ELSE IF c < s.least \/ IsSurrogate(c) \/ c > 1114111
              THEN [s EXCEPT !.bad = TRUE]
              ELSE [s EXCEPT !.need = 0, !.cp = 0, !.acc = Append(s.acc, c)]
\* The decoder run over b[lo..hi] from the state s: over the first half,
\* then from the state reached (computed once) over the second half.
RECURSIVE DecodeRange(_, _, _, _)
DecodeRange(s, b, lo, hi) ==
    IF lo > hi THEN s
    ELSE IF lo = hi THEN DecodeStep(s, b[lo])
    ELSE CHOOSE r \in {DecodeRange(left, b, ((lo + hi) \div 2) + 1, hi) :
                         left \in {DecodeRange(s, b, lo, (lo + hi) \div 2)}} : TRUE
DecodeResult(s) ==
    IF s.bad \/ s.need # 0 THEN [exc |-> "UnicodeDecodeError", value |-> <<>>]
    ELSE [exc |-> "None", value |-> s.acc]
decode_utf8(b) ==
    CHOOSE r \in {DecodeResult(s) : s \in {DecodeRange(DecodeStart, b, 1, Len(b))}} : TRUE

\* ------------------------------------------------------------------ CSV
\* One field as csv.writer writes it under QUOTE_MINIMAL: quoted, with the
\* quotes doubled, when it holds the delimiter, the quote or a character of
\* the line terminator (LF).
RECURSIVE DoubleQuotes(_, _)
DoubleQuotes(f, i) ==
    IF i > Len(f) THEN <<>>
    ELSE (IF f[i] = QUOTE THEN <<QUOTE, QUOTE>> ELSE <<f[i]>>) \o DoubleQuotes(f, i + 1)
NeedsQuote(f) == \E i \in 1..Len(f) : f[i] \in {COMMA, QUOTE, LF}
QuoteField(f) ==
    IF NeedsQuote(f) THEN <<QUOTE>> \o DoubleQuotes(f, 1) \o <<QUOTE>> ELSE f

\* One record as csv.writer writes it; a lone empty field is written "".
RECURSIVE JoinFields(_, _)
JoinFields(fields, i) ==
    IF i > Len(fields) THEN <<>>
    ELSE (IF i > 1 THEN <<COMMA>> ELSE <<>>) \o QuoteField(fields[i])
         \o JoinFields(fields, i + 1)
WriteRecord(fields) ==
    (IF Len(fields) = 1 /\ fields[1] = <<>> THEN <<QUOTE, QUOTE>>
     ELSE JoinFields(fields, 1)) \o <<LF>>

\* A cell as to_csv formats it: a missing value is the empty na_rep.
FormatCell(c) == IF c = NaN THEN <<>> ELSE c

\* DataFrame.to_csv(index=...): the header record once, then one record per
\* row; with index=True the row label comes first, under an empty name.
WriteRow(d, withIndex, i) ==
    WriteRecord((IF withIndex THEN <<str(d.index[i])>> ELSE <<>>)
                \o [j \in 1..Len(d.rows[i]) |-> FormatCell(d.rows[i][j])])
RECURSIVE WriteRows(_, _, _, _)
WriteRows(d, withIndex, lo, hi) ==
    IF lo > hi THEN <<>>
    ELSE IF lo = hi THEN WriteRow(d, withIndex, lo)
    ELSE LET mid == (lo + hi) \div 2
         IN WriteRows(d, withIndex, lo, mid) \o WriteRows(d, withIndex, mid + 1, hi)
to_csv(d, withIndex) ==
    WriteRecord((IF withIndex THEN <<<<>>>> ELSE <<>>) \o d.columns)
    \o WriteRows(d, withIndex, 1, Len(d.rows))

\* The tokenizer of pandas.read_csv, character by character.  st is "start"
\* (at the start of a field), "unquoted", "quoted" or "quote_in_quoted" (a
\* quote seen inside a quoted field); field and rec are the field and the
\* record being read, recs the records read.  Blank lines are skipped.
TokenStart == [st |-> "start", field |-> <<>>, rec |-> <<>>, recs |-> <<>>]
EndRecord(s) ==
    IF s.st = "start" /\ s.rec = <<>> THEN s.recs
    ELSE Append(s.recs, Append(s.rec, s.field))
TokenStep(s, c) ==
    IF s.st = "quoted"
    THEN (IF c = QUOTE THEN [s EXCEPT !.st = "quote_in_quoted"]
          ELSE [s EXCEPT !.field = Append(s.field, c)])
    ELSE IF c = QUOTE /\ s.st = "start" THEN [s EXCEPT !.st = "quoted"]
    ELSE IF c = QUOTE /\ s.st = "quote_in_quoted"
         THEN [s EXCEPT !.st = "quoted", !.field = Append(s.field, c)]
    ELSE IF c = COMMA
         THEN [s EXCEPT !.st = "start", !.field = <<>>, !.rec = Append(s.rec, s.field)]
    ELSE IF c = LF
         THEN [st |-> "start", field |-> <<>>, rec |-> <<>>, recs |-> EndRecord(s)]
    ELSE [s EXCEPT !.st = "unquoted", !.field = Append(s.field, c)]
\* The tokenizer run over t[lo..hi] from the state s: over the first half,
\* then from the state reached (computed once) over the second half.
RECURSIVE TokenRange(_, _, _, _)
TokenRange(s, t, lo, hi) ==
    IF lo > hi THEN s
    ELSE IF lo = hi THEN TokenStep(s, t[lo])
    ELSE CHOOSE r \in {TokenRange(left, t, ((lo + hi) \div 2) + 1, hi) :
                         left \in {TokenRange(s, t, lo, (lo + hi) \div 2)}} : TRUE
Tokenize(t) ==
    CHOOSE r \in {EndRecord(s) : s \in {TokenRange(TokenStart, t, 1, Len(t))}} : TRUE

\* A field as a cell: the empty field is a missing value.
ParseCell(f) == IF f = <<>> THEN NaN ELSE f

\* pandas.read_csv(bytes): [exc, value].  The first record names the
\* columns; a shorter record is padded with missing values, a longer one is
\* a ParserError; a file with no record is an EmptyDataError.
EmptyDf == [columns |-> <<>>, index |-> <<>>, rows |-> <<>>]
FrameOfRecords(recs) ==
    IF recs = <<>> THEN [exc |-> "EmptyDataError", value |-> EmptyDf]
    ELSE IF \E r \in 2..Len(recs) : Len(recs[r]) > Len(recs[1])
    THEN [exc |-> "ParserError", value |-> EmptyDf]
    ELSE [exc |-> "None",
          value |-> [columns |-> recs[1],
                     index |-> [r \in 1..(Len(recs) - 1) |-> r - 1],
                     rows |-> [r \in 1..(Len(recs) - 1) |->
                                [j \in 1..Len(recs[1]) |->
                                  IF j <= Len(recs[r + 1])
                                  THEN ParseCell(recs[r + 1][j])
                                  ELSE NaN]]]]
FrameOfText(dec) ==
    IF dec.exc # "None" THEN [exc |-> dec.exc, value |-> EmptyDf]
    ELSE CHOOSE r \in {FrameOfRecords(recs) : recs \in {Tokenize(dec.value)}} : TRUE
read_csv(b) == CHOOSE r \in {FrameOfText(dec) : dec \in {decode_utf8(b)}} : TRUE

\* ------------------------------------------------- split_csv, main.py:7
len(d) == Len(d.rows)

\* start:stop of a Python slice over n positions, as the pair of bounds
\* <<first, last>> (0-based, last exclusive) after normalisation.
SliceBound(n, k) == IF k < 0 THEN Max(k + n, 0) ELSE Min(k, n)

\* df.iloc[start:stop]
iloc_InclusiveStop(d, start, stop) ==
    LET a == SliceBound(len(d), start)
        b == SliceBound(len(d), stop + 1)
    IN [columns |-> d.columns,
        index |-> SubSeq(d.index, a + 1, b),
        rows |-> SubSeq(d.rows, a + 1, b)]
iloc(d, start, stop) ==
    LET a == SliceBound(len(d), start)
        b == SliceBound(len(d), stop)
    IN [columns |-> d.columns,
        index |-> SubSeq(d.index, a + 1, b),
        rows |-> SubSeq(d.rows, a + 1, b)]

\* num_chunks = (len(df) - 1) // chunk_size + 1, for chunk_size # 0
num_chunks_Floor(n, chunk_size) == PyFloorDiv(n, chunk_size)
num_chunks_NoMinusOne(n, chunk_size) == PyFloorDiv(n, chunk_size) + 1
num_chunks(n, chunk_size) == PyFloorDiv(n - 1, chunk_size) + 1

\* split_csv(df, chunk_size): [exc, value].  range(num_chunks) is empty
\* when num_chunks <= 0; chunk_size = 0 raises in the division.
split_csv(d, chunk_size) ==
    IF chunk_size = 0 THEN [exc |-> "ZeroDivisionError", value |-> <<>>]
    ELSE [exc |-> "None",
          value |-> [i \in 1..Max(num_chunks(len(d), chunk_size), 0) |->
                      iloc(d, (i - 1) * chunk_size, i * chunk_size)]]

\* ----------------------------------------- convert_df_to_csv, main.py:23
convert_df_to_csv_WithIndex(d) ==
    CHOOSE r \in {encode_utf8(text) : text \in {to_csv(d, TRUE)}} : TRUE
convert_df_to_csv(d) ==
    CHOOSE r \in {encode_utf8(text) : text \in {to_csv(d, FALSE)}} : TRUE

\* ---------------------------------------------------------------- inputs
\* The raw second field of the data lines of an uploaded file, by turn:
\*   p   "q,r"   (empty)   "s""t"   e-acute   "u<LF>w"   "z"   euro sign
RawValues ==
    << <<112>>, <<34, 113, 44, 114, 34>>, <<>>, <<34, 115, 34, 34, 116, 34>>,
       <<195, 169>>, <<34, 117, 10, 119, 34>>, <<34, 122, 34>>, <<226, 130, 172>> >>

\* The bytes of a well-formed file with header k,v and r data lines; line i
\* has the key chr(97 + i), so all rows differ.
FileLine(i) == <<97 + i, COMMA>> \o RawValues[(i % Len(RawValues)) + 1] \o <<LF>>
RECURSIVE FileLines(_, _)
FileLines(lo, hi) ==
    IF lo > hi THEN <<>>
    ELSE IF lo = hi THEN FileLine(lo)
    ELSE LET mid == (lo + hi) \div 2
         IN FileLines(lo, mid) \o FileLines(mid + 1, hi)
FileBytes(r) == <<107, COMMA, 118, LF>> \o FileLines(0, r - 1)

\* Further files: a short record, a one-column file with a missing value,
\* an empty file, a record longer than the header, and invalid UTF-8.
ExtraFiles ==
    { <<107, COMMA, 118, LF, 97, LF>>,
      <<107, LF, QUOTE, QUOTE, LF, 98, LF>>,
      <<>>,
      <<107, COMMA, 118, LF, 97, COMMA, 98, LF, 99, COMMA, 100, COMMA, 101, LF>>,
      <<107, LF, 255, LF>> }

\* x.csv and a.b.csv
UploadNames == { <<120, DOT, 99, 115, 118>>, <<97, DOT, 98, DOT, 99, 115, 118>> }
Uploads ==
    [name : UploadNames, content : {FileBytes(r) : r \in 0..MaxRows} \cup ExtraFiles]

\* ----------------------------------------------------------------- state
VARIABLES
    pc,             \* position of the run of main
    uploaded_file,  \* <<>> (None) or <<[name, content]>>
    df,             \* the DataFrame read from the upload
    split_dfs,      \* the chunks returned by split_csv
    zip_buffer,     \* the entries [path, data] held by the BytesIO buffer
    zip_file,       \* the ZipFile: "none", "open" or "closed"
    idx,            \* the index enumerate() gives to the next chunk
    exc,            \* the exception in flight, "None" if there is none
    error,          \* <<>> or <<message>> shown by st.error
    download,       \* <<>> or <<[data, file_name, mime]>> given to st.download_button
    remembered,     \* <<>> or <<[file, data]>>: what an earlier run delivered
    call_df,        \* argument df of a direct call of split_csv
    call_chunk_size,\* argument chunk_size of a direct call of split_csv
    call_ret        \* <<>> before the call, then <<[exc, value]>>

vars == <<pc, uploaded_file, df, split_dfs, zip_buffer, zip_file, idx, exc, error,
          download, remembered, call_df, call_chunk_size, call_ret>>
main_vars == <<pc, uploaded_file, df, split_dfs, zip_buffer, zip_file, idx, exc,
               error, download, remembered>>
call_vars == <<call_df, call_chunk_size, call_ret>>

\* ------------------------------------------------------- main, main.py:35
\* chunk_size=10 of the call at line 55
chunk_size == 10
\* folder_name = "split_files", line 62
folder_name == <<115, 112, 108, 105, 116, 95, 102, 105, 108, 101, 115>>
\* ".csv" of the f-string at line 68
csv_suffix == <<DOT, 99, 115, 118>>
\* start=1 of enumerate, line 64
EnumerateStart_Zero == 1 - 1
EnumerateStart == 1

\* The exceptions `except Exception` catches (all that the steps raise).
ExceptionClasses ==
    {"EmptyDataError", "ParserError", "UnicodeDecodeError", "UnicodeEncodeError",
     "ZeroDivisionError", "MemoryError", "ValueError"}

\* Largest index of an occurrence of c in p, 0 if there is none.
rfind(p, c) ==
    IF \E i \in 1..Len(p) : p[i] = c
    THEN CHOOSE i \in 1..Len(p) : p[i] = c /\ \A j \in (i + 1)..Len(p) : p[j] # c
    ELSE 0

\* os.path.splitext(p)[0]: p up to its last dot, unless that dot is before
\* the last separator or only dots precede it in the file name.
splitext_root(p) ==
    LET sepIndex == rfind(p, SLASH)
        dotIndex == rfind(p, DOT)
    IN IF dotIndex > sepIndex
          /\ \E i \in (sepIndex + 1)..(dotIndex - 1) : p[i] # DOT
       THEN SubSeq(p, 1, dotIndex - 1)
       ELSE p

\* f"{original_filename}{idx}.csv"
new_filename(original_filename, i) == original_filename \o str(i) \o csv_suffix

\* os.path.join(a, b), as the archive stores it (separator "/")
path_join(a, b) ==
    IF b # <<>> /\ b[1] = SLASH THEN b
    ELSE IF a = <<>> \/ a[Len(a)] = SLASH THEN a \o b
    ELSE a \o <<SLASH>> \o b

\* io.BytesIO(): a new, empty buffer (line 59)
BytesIO_Reused == IF remembered = <<>> THEN <<>> ELSE remembered[1].data
BytesIO == <<>>

\* The for loop has consumed every chunk (line 64).
LoopDone_EarlyExit(i, chunks) == i - EnumerateStart >= Len(chunks) - 1
LoopDone(i, chunks) == i - EnumerateStart >= Len(chunks)

\* Control has reached st.download_button (lines 77-85, inside the try).
DownloadReached_AfterTry == pc \in {"download", "error"}
DownloadReached == pc = "download"

Init ==
    /\ pc = "idle"
    /\ uploaded_file = <<>>
    /\ df = EmptyDf
    /\ split_dfs = <<>>
    /\ zip_buffer = <<>>
    /\ zip_file = "none"
    /\ idx = 0
    /\ exc = "None"
    /\ error = <<>>
    /\ download = <<>>
    /\ remembered = <<>>
    /\ call_df = EmptyDf
    /\ call_chunk_size = chunk_size
    /\ call_ret = <<>>

\* st.file_uploader returns a file: the script runs from the top, with
\* fresh locals and a fresh page (line 42).  With keep, the archive the run
\* before delivered is kept, to compare later runs with it.
Upload(f, keep) ==
    /\ pc \in {"idle", "delivered", "error"}
    /\ pc' = "read_csv"
    /\ uploaded_file' = <<f>>
    /\ df' = EmptyDf
    /\ split_dfs' = <<>>
    /\ zip_buffer' = <<>>
    /\ zip_file' = "none"
    /\ idx' = 0
    /\ exc' = "None"
    /\ error' = <<>>
    /\ download' = <<>>
    /\ remembered' = (IF keep /\ pc = "delivered" /\ remembered = <<>>
                      THEN <<[file |-> uploaded_file[1], data |-> download[1].data]>>
                      ELSE remembered)
    /\ UNCHANGED call_vars

\* df = pd.read_csv(uploaded_file) (line 47)
ReadCsv ==
    /\ pc = "read_csv"
    /\ LET r == read_csv(uploaded_file[1].content) IN
       IF r.exc = "None"
       THEN /\ df' = r.value
            /\ pc' = "split_csv"
            /\ exc' = exc
       ELSE /\ df' = df
            /\ pc' = "except"
            /\ exc' = r.exc
    /\ UNCHANGED <<uploaded_file, split_dfs, zip_buffer, zip_file, idx, error,
                   download, remembered, call_vars>>

\* split_dfs = split_csv(df, chunk_size=10) (line 55)
SplitCsv ==
    /\ pc = "split_csv"
    /\ LET r == split_csv(df, chunk_size) IN
       IF r.exc = "None"
       THEN /\ split_dfs' = r.value
            /\ pc' = "zipfile"
            /\ exc' = exc
       ELSE /\ split_dfs' = split_dfs
            /\ pc' = "except"
            /\ exc' = r.exc
    /\ UNCHANGED <<uploaded_file, df, zip_buffer, zip_file, idx, error, download,
                   remembered, call_vars>>

\* zip_buffer = io.BytesIO(); with zipfile.ZipFile(zip_buffer, "a", ...):
\* mode "a" keeps what the buffer holds; the loop starts (lines 59-64).
OpenZip ==
    /\ pc = "zipfile"
    /\ zip_buffer' = BytesIO
    /\ zip_file' = "open"
    /\ idx' = EnumerateStart
    /\ pc' = "for"
    /\ UNCHANGED <<uploaded_file, df, split_dfs, exc, error, download, remembered,
                   call_vars>>

\* One pass of the loop body (lines 64-74).  An exception leaves the with
\* block, which closes the archive.
WriteEntry ==
    /\ pc = "for"
    /\ ~LoopDone(idx, split_dfs)
    /\ LET split_df == split_dfs[idx - EnumerateStart + 1]
           original_filename == splitext_root(uploaded_file[1].name)
           zip_path == path_join(folder_name, new_filename(original_filename, idx))
           csv_bytes == convert_df_to_csv(split_df)
       IN IF csv_bytes.exc # "None" \/ zip_file # "open"
          THEN /\ exc' = (IF csv_bytes.exc # "None" THEN csv_bytes.exc ELSE "ValueError")
               /\ zip_file' = "closed"
               /\ pc' = "except"
               /\ UNCHANGED <<zip_buffer, idx>>
          ELSE /\ zip_buffer' = Append(zip_buffer, [path |-> zip_path,
                                                    data |-> csv_bytes.value])
               /\ idx' = idx + 1
               /\ UNCHANGED <<zip_file, exc, pc>>
    /\ UNCHANGED <<uploaded_file, df, split_dfs, error, download, remembered,
                   call_vars>>

\* The loop is over: the with block closes the archive (line 60).
ExitWith ==
    /\ pc = "for"
    /\ LoopDone(idx, split_dfs)
    /\ zip_file' = "closed"
    /\ pc' = "download"
    /\ UNCHANGED <<uploaded_file, df, split_dfs, zip_buffer, idx, exc, error,
                   download, remembered, call_vars>>

\* zip_buffer.seek(0); st.download_button(data=zip_buffer, ...) (lines 77-85)
Download ==
    /\ DownloadReached
    /\ download' = <<[data |-> zip_buffer, file_name |-> "split_csvs.zip",
                      mime |-> "application/zip"]>>
    /\ pc' = "delivered"
    /\ UNCHANGED <<uploaded_file, df, split_dfs, zip_buffer, zip_file, idx, exc,
                   error, remembered, call_vars>>

\* A step inside the try runs out of memory.
RaiseMemoryError ==
    /\ pc \in {"read_csv", "split_csv", "zipfile", "for", "download"}
    /\ exc' = "MemoryError"
    /\ zip_file' = (IF zip_file = "open" THEN "closed" ELSE zip_file)
    /\ pc' = "except"
    /\ UNCHANGED <<uploaded_file, df, split_dfs, zip_buffer, idx, error, download,
                   remembered, call_vars>>

\* except Exception as e: st.error(...) (lines 87-88)
Except ==
    /\ pc = "except"
    /\ IF exc \in ExceptionClasses
       THEN /\ error' = <<exc>>
            /\ pc' = "error"
       ELSE /\ error' = error
            /\ pc' = "propagated"
    /\ UNCHANGED <<uploaded_file, df, split_dfs, zip_buffer, zip_file, idx, exc,
                   download, remembered, call_vars>>

RunStep == ReadCsv \/ SplitCsv \/ OpenZip \/ WriteEntry \/ ExitWith \/ Download \/ Except

Next ==
    \/ \E f \in Uploads, keep \in BOOLEAN : Upload(f, keep)
    \/ ReadCsv
    \/ SplitCsv
    \/ OpenZip
    \/ WriteEntry
    \/ ExitWith
    \/ Download
    \/ RaiseMemoryError
    \/ Except

Spec == Init /\ [][Next]_vars

\* The runs alone, none of them kept for comparison.
RunNext ==
    \/ \E f \in Uploads : Upload(f, FALSE)
    \/ ReadCsv
    \/ SplitCsv
    \/ OpenZip
    \/ WriteEntry
    \/ ExitWith
    \/ Download
    \/ RaiseMemoryError
    \/ Except

\* The run is sequential: a step that can be taken is taken.
FairSpec == Init /\ [][RunNext]_vars /\ WF_vars(RunStep)

\* ------------------------------------------ direct calls of split_csv
\* The DataFrame read from the well-formed file with r data lines.
MakeDf(r) == read_csv(FileBytes(r)).value

SplitInit ==
    /\ pc = "idle"
    /\ uploaded_file = <<>>
    /\ df = EmptyDf
    /\ split_dfs = <<>>
    /\ zip_buffer = <<>>
    /\ zip_file = "none"
    /\ idx = 0
    /\ exc = "None"
    /\ error = <<>>
    /\ download = <<>>
    /\ remembered = <<>>
    /\ call_df \in {MakeDf(r) : r \in 0..MaxCallRows}
    /\ call_chunk_size \in (0 - MaxNegativeChunkSize)..MaxChunkSize
    /\ call_ret = <<>>

CallSplitCsv ==
    /\ call_ret = <<>>
    /\ call_ret' = <<split_csv(call_df, call_chunk_size)>>
    /\ UNCHANGED <<main_vars, call_df, call_chunk_size>>

SplitNext == CallSplitCsv

SplitSpec == SplitInit /\ [][SplitNext]_vars

\* =============================================================== claims
\* ------------------------------------------------ split_csv (SplitSpec)
Returned == call_ret # <<>>
RowCount == len(call_df)
ChunkRows(i) == call_ret[1].value[i].rows

\* ceil(r / k) for k > 0: the least n with n * k >= r
CeilDiv(r, k) == CHOOSE n \in 0..r : n * k >= r /\ \A m \in 0..(n - 1) : m * k < r

\* The rows of chunks lo..hi, one after the other.
RECURSIVE ConcatRows(_, _, _)
ConcatRows(chunks, lo, hi) ==
    IF lo > hi THEN <<>>
    ELSE IF lo = hi THEN chunks[lo].rows
    ELSE LET mid == (lo + hi) \div 2
         IN ConcatRows(chunks, lo, mid) \o ConcatRows(chunks, mid + 1, hi)

\* C1: for R > 0 rows and chunk size K > 0, split_csv returns exactly
\* ceil(R / K) chunks.
C1_ChunkCount ==
    (Returned /\ RowCount > 0 /\ call_chunk_size > 0)
    => /\ call_ret[1].exc = "None"
       /\ Len(call_ret[1].value) = CeilDiv(RowCount, call_chunk_size)

\* 10 rows with K = 10 have been split into one chunk.
C1_Witness ==
    /\ Returned /\ RowCount = 10 /\ call_chunk_size = 10
    /\ Len(call_ret[1].value) = 1

\* C2: for R >= 0 rows and K > 0, chunk i (0-based) holds the rows
\* [i*K, min((i+1)*K, R)), and the chunks' rows in list order are the
\* original rows.
C2_Concatenation ==
    (Returned /\ call_chunk_size > 0)
    => LET K == call_chunk_size
           chunks == call_ret[1].value
       IN /\ call_ret[1].exc = "None"
          /\ \A i \in 0..(Len(chunks) - 1) :
               ChunkRows(i + 1) =
                 [j \in 1..(Min((i + 1) * K, RowCount) - i * K) |-> call_df.rows[i * K + j]]
          /\ ConcatRows(chunks, 1, Len(chunks)) = call_df.rows

\* 7 rows with K = 3 have been split into three chunks.
C2_Witness ==
    /\ Returned /\ RowCount = 7 /\ call_chunk_size = 3
    /\ Len(call_ret[1].value) = 3

\* C3: for K > 0, every chunk but the last has K rows and the last has
\* R - K*(numChunks-1) rows, a number in 1..K; no chunk is empty.
C3_ChunkSizes ==
    (Returned /\ call_chunk_size > 0)
    => LET K == call_chunk_size
           n == Len(call_ret[1].value)
       IN \A i \in 1..n :
            /\ i < n => Len(ChunkRows(i)) = K
            /\ i = n => /\ Len(ChunkRows(i)) = RowCount - K * (n - 1)
                        /\ Len(ChunkRows(i)) \in 1..K

\* 25 rows with K = 10 have been split into chunks of 10, 10 and 5 rows.
C3_Witness ==
    /\ Returned /\ RowCount = 25 /\ call_chunk_size = 10
    /\ [i \in 1..Len(call_ret[1].value) |-> Len(ChunkRows(i))] = <<10, 10, 5>>

\* C6: for every chunk size K <= 0 the chunker rejects the call with a
\* configuration error: it returns no list of chunks and does not divide
\* by zero.
C6_RejectsNonPositive ==
    (Returned /\ call_chunk_size <= 0)
    => call_ret[1].exc \notin {"None", "ZeroDivisionError"}

\* C9 as stated: for zero rows and K > 0 the chunk-count formula evaluates
\* to 1 and split_csv returns at least one chunk.
C9_ZeroRowsOneChunk ==
    (Returned /\ RowCount = 0 /\ call_chunk_size > 0)
    => /\ num_chunks(RowCount, call_chunk_size) = 1
       /\ Len(call_ret[1].value) >= 1

\* C9 amended: for zero rows and K > 0 the chunk-count formula evaluates to
\* 0 ((-1) // K is -1) and split_csv returns the empty list.
C9_ZeroRowsNoChunk ==
    (Returned /\ RowCount = 0 /\ call_chunk_size > 0)
    => /\ num_chunks(RowCount, call_chunk_size) = 0
       /\ call_ret[1].exc = "None"
       /\ call_ret[1].value = <<>>

\* A DataFrame without rows has been split with K = 10.
C9_Witness ==
    /\ Returned /\ RowCount = 0 /\ call_chunk_size = 10
    /\ call_df.columns # <<>>
    /\ call_ret[1].value = <<>>

\* ------------------------------------------------------------ main (Spec)
Delivered == download # <<>>
Archive == download[1].data

\* The stem of an upload named <stem>.csv, and the decimal numeral of j < 100.
StemOf(name) == SubSeq(name, 1, Len(name) - 4)
Numeral(j) == IF j < 10 THEN <<48 + j>> ELSE <<48 + (j \div 10), 48 + (j % 10)>>
EntryPath(stem, j) == folder_name \o <<SLASH>> \o stem \o Numeral(j) \o csv_suffix

\* The DataFrame an archive entry decodes to.
Decoded(entry) == read_csv(entry.data).value

\* The rows of the decoded entries lo..hi, one after the other.
RECURSIVE DecodedRows(_, _, _)
DecodedRows(entries, lo, hi) ==
    IF lo > hi THEN <<>>
    ELSE IF lo = hi THEN Decoded(entries[lo]).rows
    ELSE LET mid == (lo + hi) \div 2
         IN DecodedRows(entries, lo, mid) \o DecodedRows(entries, mid + 1, hi)

\* The dataset the archive decodes to: the columns of its entries and the
\* rows of all entries in index order; an archive without entries gives
\* neither.
Reconstructed(entries) ==
    [columns |-> IF entries = <<>> THEN <<>> ELSE Decoded(entries[1]).columns,
     rows |-> DecodedRows(entries, 1, Len(entries))]

\* C4: when main completes for an upload with stem S split into N chunks,
\* the archive holds exactly N entries, entry j has the path
\* split_files/S<j>.csv and holds chunk j, and no path occurs twice.
C4_ArchiveEntries ==
    pc = "delivered"
    => LET S == StemOf(uploaded_file[1].name)
           N == Len(split_dfs)
       IN /\ Len(Archive) = N
          /\ \A j \in 1..N :
               /\ Archive[j].path = EntryPath(S, j)
               /\ Decoded(Archive[j]).rows = split_dfs[j].rows
          /\ \A i, j \in 1..N : i # j => Archive[i].path # Archive[j].path

\* a.b.csv with 21 or more rows has been delivered as three entries.
C4_Witness ==
    /\ pc = "delivered"
    /\ uploaded_file[1].name = <<97, DOT, 98, DOT, 99, 115, 118>>
    /\ Len(Archive) = 3
    /\ Archive[3].path = folder_name \o <<SLASH, 97, DOT, 98, 51>> \o csv_suffix

\* C5 as stated: every entry is the original header once, then the rows of
\* its chunk, without an index column, and the decoded entries in index
\* order give back the rows and the columns of the original dataset.
C5_RoundTripAll ==
    pc = "delivered"
    => /\ \A j \in 1..Len(Archive) :
            /\ Decoded(Archive[j]).columns = df.columns
            /\ Len(Tokenize(decode_utf8(Archive[j].data).value)) = 1 + len(split_dfs[j])
       /\ Reconstructed(Archive).rows = df.rows
       /\ Reconstructed(Archive).columns = df.columns

\* C5 amended: the same for a dataset with at least one row; for a dataset
\* without rows the archive has no entry, so only the (empty) row sequence
\* is given back, not the columns.
C5_RoundTripNonEmpty ==
    pc = "delivered"
    => /\ \A j \in 1..Len(Archive) :
            /\ Decoded(Archive[j]).columns = df.columns
            /\ Len(Tokenize(decode_utf8(Archive[j].data).value)) = 1 + len(split_dfs[j])
       /\ Reconstructed(Archive).rows = df.rows
       /\ len(df) > 0 => Reconstructed(Archive).columns = df.columns
       /\ len(df) = 0 => Archive = <<>>

\* A file of 12 rows, with quoted, missing and non-ASCII values, has been
\* delivered as two entries.
C5_Witness ==
    /\ pc = "delivered"
    /\ len(df) = 12
    /\ Len(Archive) = 2
    /\ df.rows[2][2] = <<113, COMMA, 114>>
    /\ df.rows[3][2] = NaN

\* C7: when a step of the pipeline fails, the run ends in the error state
\* with the message shown, no archive (in particular no partly built one)
\* is handed to the download step, and the exception does not leave main.
C7_FailureNoDelivery ==
    /\ [](pc # "propagated")
    /\ []((exc # "None" \/ error # <<>>) => download = <<>>)
    /\ [](pc = "error" => error = <<exc>> /\ exc # "None")
    /\ [][pc = "except" => pc' = "error"]_vars
    /\ [][exc = "None" /\ exc' # "None" => pc' = "except"]_vars

\* The second of two chunks failed after the first entry was written; the
\* error is shown and nothing was handed to the download step.
C7_Witness ==
    /\ pc = "error"
    /\ error = <<"MemoryError">>
    /\ Len(split_dfs) = 2
    /\ Len(zip_buffer) = 1
    /\ download = <<>>

\* C8: a run delivers the same entry paths and the same decoded entries as
\* any earlier run on the same file name and content.
C8_Determinism ==
    (pc = "delivered" /\ remembered # <<>> /\ remembered[1].file = uploaded_file[1])
    => /\ Len(Archive) = Len(remembered[1].data)
       /\ \A j \in 1..Len(Archive) :
            /\ Archive[j].path = remembered[1].data[j].path
            /\ Decoded(Archive[j]) = Decoded(remembered[1].data[j])

\* A file of two chunks has been delivered a second time.
C8_Witness ==
    /\ pc = "delivered"
    /\ remembered # <<>>
    /\ remembered[1].file = uploaded_file[1]
    /\ Len(remembered[1].data) = 2
    /\ Len(Archive) = 2

\* C10: the archive is handed to the download step only after all N chunks
\* have been appended in chunk order and the archive has been closed; a
\* closed archive gets no further entry; a run whose upload was parsed
\* reaches the delivered or the error state.
C10_DeliverAfterFinalize ==
    /\ [](Delivered => /\ zip_file = "closed"
                        /\ Archive = zip_buffer
                        /\ Len(zip_buffer) = Len(split_dfs)
                        /\ \A j \in 1..Len(zip_buffer) :
                             Decoded(zip_buffer[j]).rows = split_dfs[j].rows)
    /\ [][zip_file = "closed" /\ zip_file' = "closed" => zip_buffer' = zip_buffer]_vars
    /\ [][Delivered /\ download' # <<>> => UNCHANGED <<download, zip_buffer>>]_vars
    /\ (pc = "split_csv" ~> pc \in {"delivered", "error"})

\* x.csv has been delivered as three entries, after the archive was closed.
C10_Witness ==
    /\ pc = "delivered"
    /\ uploaded_file[1].name = <<120, DOT, 99, 115, 118>>
    /\ zip_file = "closed"
    /\ Len(zip_buffer) = 3
    /\ remembered = <<>>

====
